---- MODULE Spec2Model ----
(***************************************************************************)
(* Promise-aware GraphQL execution context                                 *)
(* (strawberry/schema/execute_context.py).                                 *)
(*                                                                         *)
(* One operation is executed over a query of a fixed shape                 *)
(*     { a  p { x y }  b }                                                 *)
(* whose resolvers are drawn in Init: each field is nullable or non-null,  *)
(* answers synchronously or with a deferred value (Promise), and produces  *)
(* a value, null, a fault, or is unknown to the schema (Undefined).        *)
(* The operation is a query, or a mutation, for which the schema has no    *)
(* root type. SpecDriver adds the operations and results the driver calls  *)
(* can be given, SpecNested the resolvers that answer with a list holding  *)
(* a deferred value or with a deferred value of deferred values, and       *)
(* FairSpec is Spec with a fair caller, scheduler and environment.         *)
(* The synchronous part of the executor (execute_fields, resolve_field,    *)
(* complete_value) is a family of recursive operators threading the        *)
(* machine m = [heap, jobs, errors, log]; the actions are the driver       *)
(* calls, the environment settling a resolver's deferred value, and the    *)
(* promise scheduler running one continuation.                             *)
(***************************************************************************)
EXTENDS Integers, Sequences, FiniteSets, TLC

VARIABLES
    operation,  \* the kind of the operation: query, mutation
    cfg,        \* field path -> resolver behaviour and declared nullability
    heap,       \* the deferred values (Promise objects), by identity
    jobs,       \* continuations scheduled to run, first in first out
    errors,     \* ExecutionContext.errors
    log,        \* history: resolver invocations, continuations, path taken
    pc,         \* position of the caller: start, executed, waiting, done, raised
    data,       \* what execute_operation returned
    waitOn,     \* the promise build_response blocks on in promise.get()
    response    \* what build_response returned

vars == <<operation, cfg, heap, jobs, errors, log, pc, data, waitOn, response>>

\* Largest number of fields of one query whose resolution is not a plain value.
MaxFaults == 2

\* Largest number of fields of one query whose resolver returns a deferred value.
MaxDeferred == 3

\* Largest number of deferred values a resolver's deferred value fulfils with,
\* one inside the other, before a plain value.
MaxNesting == 2

----------------------------------------------------------------------------
(* The query document and the schema                                       *)

RootFields == <<"a", "p", "b">>
PFields == <<"x", "y">>

Selection(path) ==
    IF path = <<>> THEN RootFields
    ELSE IF path = <<"p">> THEN PFields
    ELSE <<>>

IsObjectField(fpath) == Selection(fpath) # <<>>

FieldPaths ==
    {<<RootFields[i]>> : i \in 1..Len(RootFields)}
        \cup {<<"p", PFields[i]>> : i \in 1..Len(PFields)}

ParentOf(fpath) == SubSeq(fpath, 1, Len(fpath) - 1)

IndexOf(seq, k) == CHOOSE i \in 1..Len(seq) : seq[i] = k

\* The value a leaf resolver produces: distinct for every field.
LeafValue(fpath) ==
    10 * (Len(fpath) - 1) + IndexOf(Selection(ParentOf(fpath)), fpath[Len(fpath)])

Configs ==
    [nonNull : BOOLEAN, mode : {"sync", "deferred"},
     outcome : {"ok", "fail", "null", "undefined"}]

\* The behaviours a field is drawn from, one for each way the executor can
\* tell them apart. A field the schema does not know has no type and no
\* resolver. Nullability of a type is only read where a field produces null
\* or a fault (handle_field_error, the non-null check) or where faults of
\* sub-fields pass through it, so a leaf that produces a plain value is drawn
\* as nullable. A null is drawn as the settled value of a deferred result: a
\* synchronous null goes the way of a plain value (nullable field) or of a
\* synchronous fault (non-null field).
ConfigsFor(fpath) ==
    {c \in Configs :
        /\ c.outcome = "undefined" => ~c.nonNull /\ c.mode = "sync"
        /\ c.outcome = "ok" /\ ~IsObjectField(fpath) => ~c.nonNull
        /\ c.outcome = "null" => c.mode = "deferred"}

\* The resolvers under an object field that produces no object are never
\* reached: they are drawn as one behaviour.
Unreached == [nonNull |-> FALSE, mode |-> "sync", outcome |-> "ok"]

OkConfigs == {c \in Configs : c.outcome = "ok"}
FaultConfigs == {c \in Configs : c.outcome # "ok"}

\* The fields of query c whose resolution is not a plain value.
Faulty(c) == {f \in FieldPaths : c[f].outcome # "ok"}

FaultSets == {F \in SUBSET FieldPaths : Cardinality(F) <= MaxFaults}

\* Two more behaviours of a nullable field: the resolver returns a list of a
\* plain value and a deferred value; the resolver returns a deferred value
\* that fulfils with another deferred value.
ListConfig == [nonNull |-> FALSE, mode |-> "sync", outcome |-> "list"]
NestedConfig == [nonNull |-> FALSE, mode |-> "deferred", outcome |-> "nested"]

----------------------------------------------------------------------------
(* Values, errors                                                          *)

NullV == [t |-> "null"]
UndefinedV == [t |-> "undefined"]
IntV(n) == [t |-> "int", n |-> n]
ObjV(fpath) == [t |-> "obj", path |-> fpath]
DictV(es) == [t |-> "dict", es |-> es]
ListV(xs) == [t |-> "list", xs |-> xs]
PromV(id) == [t |-> "promise", id |-> id]
AwaitableV == [t |-> "awaitable"]
ExecutionResult(d, errs) == [t |-> "result", data |-> d, errors |-> errs]

NoErr == [msg |-> "", origin |-> <<>>, path |-> <<>>, located |-> FALSE]
RawError(msg, fpath) == [msg |-> msg, origin |-> fpath, path |-> <<>>, located |-> FALSE]

\* The outcome of a call: the machine after it, and its value or its exception.
R(m, ret, exc) == [m |-> m, ret |-> ret, exc |-> exc]
Raised(r) == r.exc # NoErr

AddLog(m, ev, fpath) == [m EXCEPT !.log = Append(@, [ev |-> ev, path |-> fpath])]

----------------------------------------------------------------------------
(* strawberry.promise: the deferred value abstraction                      *)

is_thenable(v) == v.t = "promise"

\* graphql.pyutils.is_awaitable: a coroutine, or any object with __await__.
\* A Promise has __await__, so the host's detector takes it for an awaitable.
default_is_awaitable(v) == v.t \in {"awaitable", "promise"}

\* A continuation registered on a promise: what to run, and the promise
\* (target) that `then` returned for its outcome.
Reaction(kind, target, fpath, idx, keys) ==
    [kind |-> kind, target |-> target, path |-> fpath, idx |-> idx, keys |-> keys]

Job(rx, p) == [rx |-> rx, state |-> p.state, value |-> p.value, reason |-> p.reason]

PendingPromise(origin, fpath) ==
    [state |-> "pending", value |-> NullV, reason |-> NoErr, reactions |-> <<>>,
     slots |-> <<>>, remaining |-> 0, origin |-> origin, path |-> fpath,
     following |-> FALSE, nested |-> 0]

Alloc(m, p) == [m EXCEPT !.heap = Append(@, p)]

\* Run rx after src has settled: now if it already has, else on settlement.
Subscribe(m, src, rx) ==
    IF m.heap[src].state = "pending"
    THEN [m EXCEPT !.heap[src].reactions = Append(@, rx)]
    ELSE [m EXCEPT !.jobs = Append(@, Job(rx, m.heap[src]))]

\* Settlement schedules the registered continuations, in registration order.
Flush(m, id) ==
    LET p == m.heap[id]
        scheduled == [i \in 1..Len(p.reactions) |-> Job(p.reactions[i], p)]
    IN [m EXCEPT !.jobs = @ \o scheduled, !.heap[id].reactions = <<>>]

PromiseReject(m, id, e) ==
    IF m.heap[id].state # "pending" THEN m
    ELSE Flush([m EXCEPT !.heap[id].state = "rejected", !.heap[id].reason = e], id)

\* Fulfilling with a deferred value defers to it (flattening, not nesting).
PromiseFulfil(m, id, v) ==
    IF m.heap[id].state # "pending" THEN m
    ELSE IF is_thenable(v)
         THEN Subscribe([m EXCEPT !.heap[id].following = TRUE], v.id,
                        Reaction("adopt", id, <<>>, 0, <<>>))
         ELSE Flush([m EXCEPT !.heap[id].state = "fulfilled", !.heap[id].value = v], id)

\* The promise of a continuation takes the continuation's outcome.
SettleWith(m, id, r) ==
    IF Raised(r) THEN PromiseReject(r.m, id, r.exc) ELSE PromiseFulfil(r.m, id, r.ret)

\* Promise.resolve(v): a promise is returned as it is, never wrapped again.
PromiseResolve(m, v, origin) ==
    IF is_thenable(v) THEN R(m, v, NoErr)
    ELSE LET p == [PendingPromise(origin, <<>>) EXCEPT !.state = "fulfilled", !.value = v]
         IN R(Alloc(m, p), PromV(Len(m.heap) + 1), NoErr)

\* src.then(...): a new pending promise for the continuation's outcome.
PromiseThen(m, src, kind, fpath, keys, origin) ==
    LET t == Len(m.heap) + 1
        m1 == Alloc(m, PendingPromise(origin, fpath))
    IN R(Subscribe(m1, src, Reaction(kind, t, fpath, 0, keys)), PromV(t), NoErr)

RECURSIVE SubscribeAll(_, _, _, _)
SubscribeAll(m, values, i, target) ==
    IF i > Len(values) THEN m
    ELSE IF is_thenable(values[i])
         THEN SubscribeAll(
                  Subscribe(m, values[i].id, Reaction("all", target, <<>>, i, <<>>)),
                  values, i + 1, target)
         ELSE SubscribeAll(m, values, i + 1, target)

\* Promise.all(values): fulfils with the list of settled results, by position,
\* once every input has settled; rejects with the first rejection.
PromiseAll(m, values) ==
    LET t == Len(m.heap) + 1
        waiting == {i \in 1..Len(values) : is_thenable(values[i])}
        p == [PendingPromise("Promise.all", <<>>) EXCEPT
                 !.slots = values, !.remaining = Cardinality(waiting)]
        m1 == SubscribeAll(Alloc(m, p), values, 1, t)
    IN IF waiting = {}
       THEN R(PromiseFulfil(m1, t, ListV(values)), PromV(t), NoErr)
       ELSE R(m1, PromV(t), NoErr)

\* One input of Promise.all has settled.
AllElementSettled(m, job) ==
    LET t == job.rx.target
        i == job.rx.idx
    IN IF m.heap[t].state # "pending" THEN m
       ELSE IF job.state = "rejected" THEN PromiseReject(m, t, job.reason)
       ELSE LET m1 == [m EXCEPT !.heap[t].slots[i] = job.value,
                                !.heap[t].remaining = @ - 1]
            IN IF m1.heap[t].remaining = 0
               THEN PromiseFulfil(m1, t, ListV(m1.heap[t].slots))
               ELSE m1

\* A promise that was fulfilled with another promise follows it.
Adopt(m, job) ==
    IF job.state = "rejected"
    THEN PromiseReject(m, job.rx.target, job.reason)
    ELSE PromiseFulfil(m, job.rx.target, job.value)

----------------------------------------------------------------------------
(* execute_context.py, and the base ExecutionContext it extends            *)

\* Fault injection: the host's detector is used as it is.
is_awaitable_default(value) == default_is_awaitable(value)

is_awaitable(value) ==
    IF is_thenable(value) THEN FALSE ELSE default_is_awaitable(value)

\* dict(zip(value.keys(), resolved_values))
handle_success(keys, resolved_values) ==
    LET n == IF Len(keys) < Len(resolved_values) THEN Len(keys) ELSE Len(resolved_values)
    IN DictV([i \in 1..n |-> [key |-> keys[i], val |-> resolved_values[i]]])

\* Fault injection: the mapping is assembled with the synchronous entries
\* first and the deferred ones after them.
promise_for_dict_deferred_last(m, value) ==
    LET reordered == SelectSeq(value, LAMBDA e : ~is_thenable(e.val))
                         \o SelectSeq(value, LAMBDA e : is_thenable(e.val))
        keys == [i \in 1..Len(reordered) |-> reordered[i].key]
        values == [i \in 1..Len(reordered) |-> reordered[i].val]
        all == PromiseAll(m, values)
    IN PromiseThen(all.m, all.ret.id, "handle_success", <<>>, keys, "promise_for_dict")

\* Promise.all(value.values()).then(handle_success)
promise_for_dict(m, value) ==
    LET keys == [i \in 1..Len(value) |-> value[i].key]
        values == [i \in 1..Len(value) |-> value[i].val]
        all == PromiseAll(m, values)
    IN PromiseThen(all.m, all.ret.id, "handle_success", <<>>, keys, "promise_for_dict")

\* graphql.error.located_error: an error that has a path is returned as it is.
located_error(raw_error, fpath) ==
    IF raw_error.located THEN raw_error
    ELSE [raw_error EXCEPT !.path = fpath, !.located = TRUE]

\* ExecutionContext.handle_field_error: a non-null field passes the error on
\* to its parent, a nullable one records it and becomes null.
handle_field_error(m, error, nonNull) ==
    IF nonNull THEN R(m, NullV, error)
    ELSE R([m EXCEPT !.errors = Append(@, error)], NullV, NoErr)

\* What the resolver of fpath returns when it answers synchronously, and what
\* its deferred value (for a list: the deferred element) settles to otherwise.
ResolverValue(fpath) ==
    IF cfg[fpath].outcome = "null" THEN NullV
    ELSE IF IsObjectField(fpath) THEN ObjV(fpath)
    ELSE IntV(LeafValue(fpath))

RECURSIVE execute_fields_loop(_, _, _, _, _)
RECURSIVE resolve_field(_, _)
RECURSIVE complete_value(_, _, _, _)
RECURSIVE base_complete_value(_, _, _, _)
RECURSIVE complete_list_value(_, _, _, _)

\* Fault injection: a field that is absent from the schema keeps its key.
execute_fields_loop_keeps_undefined(m, path, fields, results, contains_promise) ==
    IF fields = <<>>
    THEN IF contains_promise
         THEN promise_for_dict(AddLog(m, "slow", path), results)
         ELSE R(AddLog(m, "fast", path), DictV(results), NoErr)
    ELSE LET response_name == Head(fields)
             field_path == Append(path, response_name)
             result == resolve_field(m, field_path)
         IN IF Raised(result) THEN result
            ELSE execute_fields_loop(
                     result.m, path, Tail(fields),
                     Append(results, [key |-> response_name, val |-> result.ret]),
                     contains_promise \/ is_thenable(result.ret))

execute_fields_loop(m, path, fields, results, contains_promise) ==
    IF fields = <<>>
    THEN IF contains_promise
         THEN promise_for_dict(AddLog(m, "slow", path), results)
         ELSE R(AddLog(m, "fast", path), DictV(results), NoErr)
    ELSE LET response_name == Head(fields)
             field_path == Append(path, response_name)
             result == resolve_field(m, field_path)
         IN IF Raised(result) THEN result
            ELSE IF result.ret # UndefinedV
                 THEN execute_fields_loop(
                          result.m, path, Tail(fields),
                          Append(results, [key |-> response_name, val |-> result.ret]),
                          contains_promise \/ is_thenable(result.ret))
                 ELSE execute_fields_loop(
                          result.m, path, Tail(fields), results, contains_promise)

\* Fault injection: every selection set is routed through promise_for_dict.
execute_fields_always_promise(m, path) ==
    execute_fields_loop(m, path, Selection(path), <<>>, TRUE)

\* Fault injection: the fields are visited last to first.
execute_fields_reversed(m, path) ==
    LET fields == Selection(path)
        reversed == [i \in 1..Len(fields) |-> fields[Len(fields) + 1 - i]]
    IN execute_fields_loop(m, path, reversed, <<>>, FALSE)

execute_fields(m, path) ==
    execute_fields_loop(m, path, Selection(path), <<>>, FALSE)

\* ExecutionContext.resolve_field: call the resolver, complete its result, and
\* hand a fault of either to handle_field_error, located at the field.
resolve_field(m, field_path) ==
    LET c == cfg[field_path]
        m1 == AddLog(m, "invoke", field_path)
    IN IF c.outcome = "undefined" THEN R(m, UndefinedV, NoErr)
       ELSE IF c.mode = "sync" /\ c.outcome = "fail"
       THEN handle_field_error(
                m1, located_error(RawError("X", field_path), field_path), c.nonNull)
       ELSE LET fresh == [PendingPromise("resolver", field_path) EXCEPT
                             !.nested = IF c.outcome = "nested" THEN MaxNesting ELSE 0]
                result ==
                    IF c.mode = "deferred"
                    THEN R(Alloc(m1, fresh), PromV(Len(m1.heap) + 1), NoErr)
                    ELSE IF c.outcome = "list"
                    THEN R(Alloc(m1, fresh),
                           ListV(<<ResolverValue(field_path), PromV(Len(m1.heap) + 1)>>),
                           NoErr)
                    ELSE R(m1, ResolverValue(field_path), NoErr)
                completed == complete_value(result.m, c.nonNull, field_path, result.ret)
            IN IF Raised(completed)
               THEN handle_field_error(
                        completed.m, located_error(completed.exc, field_path), c.nonNull)
               ELSE IF is_awaitable(completed.ret)
               THEN R(completed.m, AwaitableV, NoErr)
               ELSE completed

\* Fault injection: no continuation is registered on the deferred result.
complete_value_unregistered(m, nonNull, path, result) ==
    IF is_thenable(result)
    THEN R(Alloc(m, PendingPromise("complete_value", path)), PromV(Len(m.heap) + 1), NoErr)
    ELSE base_complete_value(m, nonNull, path, result)

\* Fault injection: the deferred result is wrapped in a new deferred value.
complete_value_wrapping(m, nonNull, path, result) ==
    IF is_thenable(result)
    THEN LET wrapper == [PendingPromise("complete_value", <<>>) EXCEPT
                             !.state = "fulfilled", !.value = result]
             m1 == Alloc(m, wrapper)
         IN PromiseThen(m1, Len(m1.heap), "complete", path, <<>>, "complete_value")
    ELSE base_complete_value(m, nonNull, path, result)

\* ExecutionContextWithPromise.complete_value
complete_value(m, nonNull, path, result) ==
    IF is_thenable(result)
    THEN LET resolved == PromiseResolve(m, result, "complete_value")
         IN PromiseThen(resolved.m, resolved.ret.id, "complete", path, <<>>,
                        "complete_value")
    ELSE base_complete_value(m, nonNull, path, result)

\* ExecutionContext.complete_value: non-null check, null, nested object, leaf.
base_complete_value(m, nonNull, path, result) ==
    IF nonNull
    THEN LET completed == complete_value(m, FALSE, path, result)
         IN IF Raised(completed) THEN completed
            ELSE IF completed.ret = NullV
            THEN R(completed.m, NullV, RawError("TypeError", path))
            ELSE completed
    ELSE IF result = NullV THEN R(m, NullV, NoErr)
    ELSE IF result.t = "list" THEN complete_list_value(m, path, result.xs, <<>>)
    ELSE IF result.t = "obj" THEN execute_fields(m, path)
    ELSE R(m, result, NoErr)

\* ExecutionContext.complete_list_value: every item is completed as a
\* nullable leaf; the list of the completed items is awaited when
\* is_awaitable says so for one of them, and returned as it is otherwise.
complete_list_value(m, path, items, completed_results) ==
    IF items = <<>>
    THEN IF \E i \in 1..Len(completed_results) : is_awaitable(completed_results[i])
         THEN R(m, AwaitableV, NoErr)
         ELSE R(m, ListV(completed_results), NoErr)
    ELSE LET completed_item == complete_value(m, FALSE, path, Head(items))
         IN IF Raised(completed_item)
            THEN LET handled == handle_field_error(
                                    completed_item.m,
                                    located_error(completed_item.exc, path), FALSE)
                 IN complete_list_value(handled.m, path, Tail(items),
                                        Append(completed_results, handled.ret))
            ELSE complete_list_value(completed_item.m, path, Tail(items),
                                     Append(completed_results, completed_item.ret))

\* Fault injection: the settled value is returned without being completed.
handle_resolve_uncompleted(m, job) ==
    R(AddLog(m, "cont", job.rx.path), job.value, NoErr)

\* complete_value.handle_resolve
handle_resolve(m, job) ==
    complete_value(AddLog(m, "cont", job.rx.path), cfg[job.rx.path].nonNull,
                   job.rx.path, job.value)

\* Fault injection: the raw error is handed over without its location.
handle_error_unlocated(m, job) ==
    handle_field_error(AddLog(m, "cont", job.rx.path), job.reason,
                       cfg[job.rx.path].nonNull)

\* complete_value.handle_error
handle_error(m, job) ==
    handle_field_error(AddLog(m, "cont", job.rx.path),
                       located_error(job.reason, job.rx.path),
                       cfg[job.rx.path].nonNull)

\* graphql.utilities.get_operation_root_type, for an operation the schema
\* has no root type for: a GraphQLError without a path.
NotConfigured ==
    [msg |-> "Schema is not configured", origin |-> <<>>, path |-> <<>>, located |-> TRUE]

get_operation_root_type(m) == R(m, NullV, NotConfigured)

\* ExecutionContext.execute_operation: a located error that reaches the root
\* is recorded and the data is null.
original_execute_operation(m) ==
    IF operation # "query" THEN get_operation_root_type(m)
    ELSE LET result == execute_fields(m, <<>>)
         IN IF Raised(result)
            THEN R([result.m EXCEPT !.errors = Append(@, result.exc)], NullV, NoErr)
            ELSE result

\* execute_operation.promise_executor
promise_executor(m, job) == original_execute_operation(m)

\* ExecutionContext.build_response: the envelope of the data and the errors.
original_build_response(m, d) == ExecutionResult(d, m.errors)

\* Fault injection: the rejection replaces the recorded errors.
on_rejected_overwriting(m, job) ==
    R([m EXCEPT !.errors = <<job.reason>>], NullV, NoErr)

\* Fault injection: the rejection is swallowed.
on_rejected_silent(m, job) == R(m, NullV, NoErr)

\* build_response.on_rejected
on_rejected(m, job) ==
    R([m EXCEPT !.errors = Append(@, job.reason)], NullV, NoErr)

\* build_response.on_resolve
on_resolve(m, job) == R(m, original_build_response(m, job.value), NoErr)

\* then(on_fulfilled, on_rejected) with one of the two missing passes the
\* settlement on unchanged.
PassOn(m, job) == R(m, job.value, job.reason)

\* The continuation a scheduled job runs, by the closure it was made from.
Continuation(m, job) ==
    LET kind == job.rx.kind
        fulfilled == job.state = "fulfilled"
    IN CASE kind = "promise_executor" ->
                IF fulfilled THEN promise_executor(m, job) ELSE PassOn(m, job)
         [] kind = "complete" ->
                IF fulfilled THEN handle_resolve(m, job) ELSE handle_error(m, job)
         [] kind = "handle_success" ->
                IF fulfilled
                THEN R(m, handle_success(job.rx.keys, job.value.xs), NoErr)
                ELSE PassOn(m, job)
         [] kind = "on_rejected" ->
                IF fulfilled THEN PassOn(m, job) ELSE on_rejected(m, job)
         [] kind = "on_resolve" ->
                IF fulfilled THEN on_resolve(m, job) ELSE PassOn(m, job)

RunOne(m, job) ==
    IF job.rx.kind = "all" THEN AllElementSettled(m, job)
    ELSE IF job.rx.kind = "adopt" THEN Adopt(m, job)
    ELSE SettleWith(m, job.rx.target, Continuation(m, job))

----------------------------------------------------------------------------
(* The operation                                                           *)

Machine == [heap |-> heap, jobs |-> jobs, errors |-> errors, log |-> log]

Store(m) ==
    /\ heap' = m.heap
    /\ jobs' = m.jobs
    /\ errors' = m.errors
    /\ log' = m.log

Init ==
    /\ operation = "query"
    /\ \E F \in FaultSets :
         \E bad \in [F -> FaultConfigs] :
            \E good \in [FieldPaths \ F -> OkConfigs] :
               /\ cfg = [f \in FieldPaths |-> IF f \in F THEN bad[f] ELSE good[f]]
               /\ \A f \in FieldPaths : cfg[f] \in ConfigsFor(f)
               /\ Cardinality({f \in FieldPaths : cfg[f].mode = "deferred"}) <= MaxDeferred
               /\ \A f \in FieldPaths :
                     Len(f) > 1 /\ cfg[ParentOf(f)].outcome # "ok" => cfg[f] = Unreached
    /\ heap = <<>>
    /\ jobs = <<>>
    /\ errors = <<>>
    /\ log = <<>>
    /\ pc = "start"
    /\ data = NullV
    /\ waitOn = 0
    /\ response = NullV

\* Fault injection: the execution body is called directly.
execute_operation_direct(m) == original_execute_operation(m)

\* ExecutionContextWithPromise.execute_operation
execute_operation(m) ==
    LET resolved == PromiseResolve(m, NullV, "execute_operation")
    IN PromiseThen(resolved.m, resolved.ret.id, "promise_executor", <<>>, <<>>,
                   "execute_operation")

ExecuteOperation ==
    /\ pc = "start"
    /\ LET r == execute_operation(Machine)
       IN /\ Store(r.m)
          /\ data' = r.ret
          /\ pc' = IF Raised(r) THEN "raised" ELSE "executed"
    /\ UNCHANGED <<operation, cfg, waitOn, response>>

\* Fault injection: no rejection handler in front of on_resolve.
build_response_without_catch(m, d) ==
    IF is_thenable(d)
    THEN PromiseThen(m, d.id, "on_resolve", <<>>, <<>>, "build_response")
    ELSE R(m, ExecutionResult(d, m.errors), NoErr)

\* ExecutionContextWithPromise.build_response up to promise.get(): the
\* result is the promise to wait on, or the envelope when data is no promise.
build_response(m, d) ==
    IF is_thenable(d)
    THEN LET caught == PromiseThen(m, d.id, "on_rejected", <<>>, <<>>, "build_response")
         IN PromiseThen(caught.m, caught.ret.id, "on_resolve", <<>>, <<>>,
                        "build_response")
    ELSE R(m, original_build_response(m, d), NoErr)

BuildResponse ==
    /\ pc = "executed"
    /\ LET r == build_response(Machine, data)
       IN /\ Store(r.m)
          /\ IF is_thenable(r.ret)
             THEN /\ waitOn' = r.ret.id
                  /\ pc' = "waiting"
                  /\ UNCHANGED response
             ELSE /\ response' = r.ret
                  /\ pc' = "done"
                  /\ UNCHANGED waitOn
    /\ UNCHANGED <<operation, cfg, data>>

\* The deferred value a resolver returned settles as the resolver decides.
settle_promise(m, id) ==
    LET fpath == m.heap[id].path
        inner == [PendingPromise("resolver", fpath) EXCEPT !.nested = m.heap[id].nested - 1]
    IN IF cfg[fpath].outcome = "fail"
       THEN PromiseReject(m, id, RawError("X", fpath))
       ELSE IF m.heap[id].nested > 0
       THEN PromiseFulfil(Alloc(m, inner), id, PromV(Len(m.heap) + 1))
       ELSE PromiseFulfil(m, id, ResolverValue(fpath))

\* The environment settles the deferred value a resolver returned, when the
\* single thread is not inside a continuation and none is waiting to run.
Settle(id) ==
    /\ pc \in {"waiting", "done", "raised"}
    /\ heap[id].origin = "resolver"
    /\ jobs = <<>>
    /\ heap[id].state = "pending"
    /\ ~heap[id].following
    /\ Store(settle_promise(Machine, id))
    /\ UNCHANGED <<operation, cfg, pc, data, waitOn, response>>

\* The scheduler runs the next continuation; promise.get() returns, or
\* raises, as soon as the promise it waits on has settled.
RunJob ==
    /\ pc \in {"waiting", "done", "raised"}
    /\ jobs # <<>>
    /\ LET m == RunOne([Machine EXCEPT !.jobs = Tail(jobs)], Head(jobs))
       IN /\ Store(m)
          /\ IF pc = "waiting" /\ m.heap[waitOn].state = "fulfilled"
             THEN pc' = "done" /\ response' = m.heap[waitOn].value
             ELSE IF pc = "waiting" /\ m.heap[waitOn].state = "rejected"
             THEN pc' = "raised" /\ response' = NullV
             ELSE UNCHANGED <<pc, response>>
    /\ UNCHANGED <<operation, cfg, data, waitOn>>

Next ==
    \/ ExecuteOperation
    \/ BuildResponse
    \/ \E id \in 1..Len(heap) : Settle(id)
    \/ RunJob

Spec == Init /\ [][Next]_vars

\* The caller goes on to build_response, the scheduler runs every scheduled
\* continuation, and every deferred value a resolver returned settles.
\* The fairness of the scheduler is WF_vars(RunJob) with its enabling
\* condition written out: running a continuation always takes it off the
\* queue, so RunJob can be taken whenever its guard holds.
RunJobEnabled == pc \in {"waiting", "done", "raised"} /\ jobs # <<>>

Fairness ==
    /\ WF_vars(ExecuteOperation)
    /\ WF_vars(BuildResponse)
    /\ WF_vars(\E id \in 1..Len(heap) : Settle(id))
    /\ ([]<>~RunJobEnabled \/ []<><<RunJob>>_vars)

FairSpec == Spec /\ Fairness

\* A fresh context with nothing recorded.
FreshContext ==
    /\ heap = <<>>
    /\ jobs = <<>>
    /\ log = <<>>
    /\ waitOn = 0
    /\ response = NullV

\* A mutation sent to the schema, which has a query type only.
InitUnsupported ==
    /\ operation = "mutation"
    /\ cfg = [f \in FieldPaths |-> Unreached]
    /\ FreshContext
    /\ errors = <<>>
    /\ pc = "start"
    /\ data = NullV

\* Results that are no deferred values, and the errors recorded with them.
PlainData ==
    {NullV,
     DictV(<<[key |-> "a", val |-> IntV(LeafValue(<<"a">>))],
             [key |-> "p",
              val |-> DictV(<<[key |-> "x", val |-> IntV(LeafValue(<<"p", "x">>))],
                              [key |-> "y", val |-> IntV(LeafValue(<<"p", "y">>))]>>)],
             [key |-> "b", val |-> IntV(LeafValue(<<"b">>))]>>)}

PlainErrors == {<<>>, <<located_error(RawError("X", <<"b">>), <<"b">>)>>}

\* build_response is handed a result that is no deferred value.
InitPlain ==
    /\ operation = "query"
    /\ cfg = [f \in FieldPaths |-> Unreached]
    /\ FreshContext
    /\ errors \in PlainErrors
    /\ pc = "executed"
    /\ data \in PlainData

\* Queries in which one field answers with a list that holds a deferred
\* value, or with a deferred value of deferred values; the other resolvers
\* return a value.
InitNested ==
    /\ operation = "query"
    /\ \E g \in FieldPaths :
         \E odd \in {ListConfig, NestedConfig} :
            \E good \in [FieldPaths \ {g} -> OkConfigs] :
               /\ cfg = [f \in FieldPaths |-> IF f = g THEN odd ELSE good[f]]
               /\ \A f \in FieldPaths \ {g} : cfg[f] \in ConfigsFor(f)
               /\ IsObjectField(g) => odd = NestedConfig
               /\ Cardinality({f \in FieldPaths : cfg[f].mode = "deferred"}) <= MaxDeferred
    /\ FreshContext
    /\ errors = <<>>
    /\ pc = "start"
    /\ data = NullV

SpecNested == InitNested /\ [][Next]_vars

\* The driver calls over every operation and every kind of result.
InitDriver == Init \/ InitUnsupported \/ InitPlain

SpecDriver == InitDriver /\ [][Next]_vars

----------------------------------------------------------------------------
(* Observations used by the properties                                     *)

Missing == [t |-> "missing"]

KeysOf(d) == [i \in 1..Len(d.es) |-> d.es[i].key]

\* The value at a response path of completed data.
RECURSIVE Lookup(_, _)
Lookup(d, path) ==
    IF path = <<>> THEN d
    ELSE IF d.t # "dict" THEN Missing
    ELSE LET hits == {i \in 1..Len(d.es) : d.es[i].key = Head(path)}
         IN IF hits = {} THEN Missing
            ELSE Lookup(d.es[CHOOSE i \in hits : TRUE].val, Tail(path))

\* The declared fields of a selection set that the schema knows, in order.
PresentFields(path) ==
    SelectSeq(Selection(path), LAMBDA k : cfg[Append(path, k)].outcome # "undefined")

SelectionPaths == {<<>>} \cup {f \in FieldPaths : IsObjectField(f)}

\* Every mapping of completed data lists its keys in declared order.
RECURSIVE Ordered(_, _)
Ordered(d, path) ==
    d.t = "dict" =>
        /\ KeysOf(d) = PresentFields(path)
        /\ \A i \in 1..Len(d.es) : Ordered(d.es[i].val, Append(path, d.es[i].key))

\* The data of a query none of whose resolvers fails.
RECURSIVE Expected(_)
Expected(path) ==
    LET keys == PresentFields(path)
        ValueAt(f) ==
            IF cfg[f].outcome = "null" THEN NullV
            ELSE IF IsObjectField(f) THEN Expected(f)
            ELSE IntV(LeafValue(f))
    IN DictV([i \in 1..Len(keys) |->
                 [key |-> keys[i], val |-> ValueAt(Append(path, keys[i]))]])

Logged(ev, fpath) == \E i \in 1..Len(log) : log[i] = [ev |-> ev, path |-> fpath]

\* Position of the first such event in the log, 0 if there is none.
FirstAt(ev, fpath) ==
    LET at == {i \in 1..Len(log) : log[i] = [ev |-> ev, path |-> fpath]}
    IN IF at = {} THEN 0 ELSE CHOOSE i \in at : \A j \in at : i <= j

Deferred(f) == cfg[f].mode = "deferred"

ErrorsAt(errs, fpath) == {i \in 1..Len(errs) : errs[i].path = fpath}

----------------------------------------------------------------------------
(* Properties                                                              *)

\* C1: whatever the order in which the deferred values settle, the mapping
\* that promise_for_dict produces for a selection set, and every mapping of
\* the final data, lists its keys in the declared field order.
C1_KeyOrderIsDeclaredOrder ==
    /\ \A id \in 1..Len(heap) :
          heap[id].origin = "promise_for_dict" /\ heap[id].state = "fulfilled" =>
              \E s \in SelectionPaths :
                  /\ KeysOf(heap[id].value) = PresentFields(s)
                  /\ Ordered(heap[id].value, s)
    /\ pc = "done" => Ordered(response.data, <<>>)

\* A selection set { a p b } with a and b deferred and p synchronous, where b
\* settled before a, and the response is complete.
C1_Witness ==
    /\ pc = "done"
    /\ Deferred(<<"a">>) /\ Deferred(<<"b">>) /\ ~Deferred(<<"p">>)
    /\ Logged("cont", <<"a">>) /\ Logged("cont", <<"b">>)
    /\ FirstAt("cont", <<"b">>) < FirstAt("cont", <<"a">>)
    /\ response.data.t = "dict"
    /\ KeysOf(response.data) = RootFields

\* C2: when no resolver fails, the data of the envelope maps every requested
\* key to the value of that key's own resolver, for every settlement order,
\* and the envelope carries no errors.
NoResolverFails ==
    \A f \in FieldPaths :
        \/ cfg[f].outcome = "ok"
        \/ cfg[f].outcome = "null" /\ ~cfg[f].nonNull

C2_DataIsResolverValues ==
    pc = "done" /\ NoResolverFails =>
        /\ response.t = "result"
        /\ response.data = Expected(<<>>)
        /\ response.errors = <<>>

\* a, the object p and its field y deferred: p settled first, then a, then y.
C2_Witness ==
    /\ pc = "done"
    /\ NoResolverFails
    /\ Deferred(<<"a">>) /\ Deferred(<<"p">>) /\ Deferred(<<"p", "y">>)
    /\ FirstAt("cont", <<"p">>) < FirstAt("cont", <<"a">>)
    /\ FirstAt("cont", <<"a">>) < FirstAt("cont", <<"p", "y">>)
    /\ response.data = Expected(<<>>)
    /\ Lookup(response.data, <<"p", "y">>) = IntV(LeafValue(<<"p", "y">>))

\* C3: when the deferred value of a nullable field rejects, exactly one error
\* is recorded, located at that field; the field completes to null; its key
\* is present with null in the mapping of its selection set and the values of
\* its siblings are their own.
NullableRejecting(f) ==
    Deferred(f) /\ cfg[f].outcome = "fail" /\ ~cfg[f].nonNull

C3_NullableRejectionIsLocal ==
    \A f \in FieldPaths : NullableRejecting(f) =>
        /\ Logged("cont", f) =>
              /\ Cardinality(ErrorsAt(errors, f)) = 1
              /\ \A i \in ErrorsAt(errors, f) :
                    errors[i] = [msg |-> "X", origin |-> f, path |-> f, located |-> TRUE]
              /\ \A id \in 1..Len(heap) :
                    heap[id].origin = "complete_value" /\ heap[id].path = f =>
                        heap[id].state = "fulfilled" /\ heap[id].value = NullV
        /\ ~Logged("cont", f) => ErrorsAt(errors, f) = {}
        /\ pc = "done" /\ Lookup(response.data, ParentOf(f)).t = "dict" =>
              /\ Lookup(response.data, f) = NullV
              /\ Cardinality(ErrorsAt(response.errors, f)) = 1
              /\ \A s \in FieldPaths :
                    ParentOf(s) = ParentOf(f) /\ cfg[s].outcome = "ok"
                        /\ ~IsObjectField(s) =>
                            Lookup(response.data, s) = IntV(LeafValue(s))

\* { a b } with b nullable, deferred and rejecting: data {a: 1, p: .., b: null}
\* and the single error at path b.
C3_Witness ==
    /\ pc = "done"
    /\ NullableRejecting(<<"b">>)
    /\ Lookup(response.data, <<"a">>) = IntV(LeafValue(<<"a">>))
    /\ Lookup(response.data, <<"b">>) = NullV
    /\ response.errors =
          <<[msg |-> "X", origin |-> <<"b">>, path |-> <<"b">>, located |-> TRUE]>>

\* C4: when the deferred value of a non-null field rejects (and nothing else
\* in the query fails), the nearest nullable ancestor of the field becomes
\* null and the fields outside it keep their values; the data is null only
\* when the field has no nullable ancestor.
NonNullRejecting(f) ==
    Deferred(f) /\ cfg[f].outcome = "fail" /\ cfg[f].nonNull

Ancestors(f) == {SubSeq(f, 1, k) : k \in 1..(Len(f) - 1)}

NullableAncestors(f) == {q \in Ancestors(f) : ~cfg[q].nonNull}

NearestNullableAncestor(f) ==
    CHOOSE q \in NullableAncestors(f) : \A r \in NullableAncestors(f) : Len(r) <= Len(q)

Under(f, q) == Len(q) <= Len(f) /\ SubSeq(f, 1, Len(q)) = q

C4_NonNullRejectionStopsAtNullableAncestor ==
    \A f \in FieldPaths :
        pc = "done" /\ NonNullRejecting(f) /\ Faulty(cfg) = {f} =>
            IF NullableAncestors(f) = {}
            THEN response.data = NullV
            ELSE /\ Lookup(response.data, NearestNullableAncestor(f)) = NullV
                 /\ \A s \in FieldPaths :
                       ~IsObjectField(s) /\ ~Under(s, NearestNullableAncestor(f)) =>
                           Lookup(response.data, s) = IntV(LeafValue(s))

\* C5: build_response never raises; it returns an envelope, and a failure of
\* the operation shows in it as null data together with the error.
C5_BuildResponseNeverRaises ==
    /\ pc # "raised"
    /\ pc = "done" =>
          /\ response.t = "result"
          /\ heap[data.id].state # "pending"
          /\ heap[data.id].state = "rejected" =>
                /\ response.data = NullV
                /\ \E i \in 1..Len(response.errors) :
                      response.errors[i] = heap[data.id].reason
          /\ response.data = NullV => response.errors # <<>>

\* The operation's deferred result rejected with a raw fault that has no
\* location, and build_response returned.
C5_Witness ==
    /\ pc = "done"
    /\ heap[data.id].state = "rejected"
    /\ ~heap[data.id].reason.located
    /\ response.data = NullV

\* C6: the error list only grows by appending, and the envelope that
\* build_response returns holds every error recorded up to its return.
IsPrefix(s, t) == Len(s) <= Len(t) /\ SubSeq(t, 1, Len(s)) = s

C6_ErrorsAppendOnly ==
    [][/\ IsPrefix(errors, errors')
       /\ pc # "done" /\ pc' = "done" => response'.errors = errors'
       /\ pc = "done" => response' = response]_vars

\* Two errors, one recorded by a field's handle_error and one by on_rejected,
\* both in the envelope.
C6_Witness ==
    /\ pc = "done"
    /\ heap[data.id].state = "rejected"
    /\ Len(errors) = 2
    /\ response.errors = errors
    /\ errors[2] = heap[data.id].reason

\* C7: a fault raised while the settled value of a deferred field is
\* completed is located at the field and given to handle_field_error: a
\* nullable field completes to null with the located error recorded, a
\* non-null field passes the located error on.
CompletionFaultAt(f) ==
    /\ Deferred(f)
    /\ \/ cfg[f].outcome = "null" /\ cfg[f].nonNull
       \/ /\ IsObjectField(f) /\ cfg[f].outcome = "ok"
          /\ \E k \in 1..Len(Selection(f)) :
                LET c == cfg[Append(f, Selection(f)[k])]
                IN c.mode = "sync" /\ c.nonNull /\ c.outcome \in {"fail", "null"}

C7_CompletionFaultHandledAsResolverFault ==
    \A id \in 1..Len(heap) :
        LET f == heap[id].path
        IN heap[id].origin = "complete_value" /\ CompletionFaultAt(f)
               /\ Logged("cont", f) =>
            IF cfg[f].nonNull
            THEN heap[id].state = "rejected" /\ heap[id].reason.located
            ELSE /\ heap[id].state = "fulfilled" /\ heap[id].value = NullV
                 /\ \E i \in 1..Len(errors) :
                       errors[i].located /\ Under(errors[i].path, f)

\* C8: every recorded error has a path, the path of the field whose
\* resolution or completion failed.
C8_EveryErrorHasItsFieldPath ==
    \A i \in 1..Len(errors) :
        errors[i].located /\ errors[i].path = errors[i].origin

\* C9 as stated: a query of synchronous resolvers only never constructs a
\* deferred value.
AllSync == \A f \in FieldPaths : ~Deferred(f)

C9_NoDeferredValueAtAll == AllSync => heap = <<>>

\* C9, amended: for a query of synchronous resolvers only, every selection
\* set takes the fast path and field resolution constructs no deferred
\* value; the only ones are those of the driver (execute_operation wraps the
\* execution, build_response chains its two handlers), and the key order of
\* the response is the declared order.
C9_FastPathEverywhere ==
    AllSync =>
        /\ \A id \in 1..Len(heap) :
              heap[id].origin \in {"execute_operation", "build_response"}
        /\ \A i \in 1..Len(log) : log[i].ev # "slow"
        /\ pc = "done" => Ordered(response.data, <<>>)

\* A synchronous query answered in full: both selection sets on the fast path.
C9_Witness ==
    /\ pc = "done"
    /\ AllSync
    /\ Logged("fast", <<>>) /\ Logged("fast", <<"p">>)
    /\ KeysOf(response.data) = RootFields
    /\ KeysOf(Lookup(response.data, <<"p">>)) = PFields

\* C10 as stated: execute_fields invokes the resolver of every field of the
\* selection set (so once the root selection set has been executed, all its
\* resolvers have been invoked), and by the time the continuation of a
\* deferred field runs, the resolver of every field of its selection set has
\* been invoked.
IsInvoke(i, s) == log[i].ev = "invoke" /\ ParentOf(log[i].path) = s
IsCont(i, s) == log[i].ev = "cont" /\ ParentOf(log[i].path) = s
DeclaredIndex(fpath) == IndexOf(Selection(ParentOf(fpath)), fpath[Len(fpath)])

C10_AllSiblingsInvokedBeforeContinuation ==
    /\ data.t = "promise" /\ heap[data.id].state # "pending" =>
          \A k \in 1..Len(PresentFields(<<>>)) :
              Logged("invoke", <<PresentFields(<<>>)[k]>>)
    /\ \A s \in SelectionPaths : \A i \in 1..Len(log) :
          IsCont(i, s) =>
              \A k \in 1..Len(PresentFields(s)) :
                  \E j \in 1..(i - 1) :
                      log[j] = [ev |-> "invoke", path |-> Append(s, PresentFields(s)[k])]

\* C10, amended: the resolvers of a selection set are invoked in declared
\* order, all of them unless the synchronous fault of a non-null field ends
\* the selection set early, and none is invoked after the continuation of a
\* deferred sibling has run.
C10_InvocationOrder ==
    \A s \in SelectionPaths :
        LET invoked == {i \in 1..Len(log) : IsInvoke(i, s)}
            continued == {i \in 1..Len(log) : IsCont(i, s)}
            returned == {i \in 1..Len(log) : log[i].ev \in {"fast", "slow"} /\ log[i].path = s}
        IN /\ \A i, j \in invoked :
                 i < j => DeclaredIndex(log[i].path) < DeclaredIndex(log[j].path)
           /\ \A i \in continued : \A j \in invoked : j < i
           /\ \A i \in returned :
                 \A k \in 1..Len(PresentFields(s)) :
                     \E j \in invoked :
                         j < i /\ log[j].path = Append(s, PresentFields(s)[k])

\* In { a p b } the deferred b settled before the deferred a, after all
\* three resolvers had been invoked in declared order.
C10_Witness ==
    /\ Deferred(<<"a">>) /\ Deferred(<<"b">>)
    /\ FirstAt("invoke", <<"a">>) > 0
    /\ FirstAt("invoke", <<"a">>) < FirstAt("invoke", <<"p">>)
    /\ FirstAt("invoke", <<"p">>) < FirstAt("invoke", <<"b">>)
    /\ FirstAt("invoke", <<"b">>) < FirstAt("cont", <<"b">>)
    /\ FirstAt("cont", <<"b">>) < FirstAt("cont", <<"a">>)

\* Whether a value of kind t occurs in value v, at any depth.
RECURSIVE Holds(_, _)
Holds(v, t) ==
    \/ v.t = t
    \/ v.t = "dict" /\ \E i \in 1..Len(v.es) : Holds(v.es[i].val, t)
    \/ v.t = "list" /\ \E i \in 1..Len(v.xs) : Holds(v.xs[i], t)

\* The classification of a value that is no deferred value, and of what it
\* holds.
ClassifiedAsByDefault(v) ==
    /\ ~is_thenable(v) => (is_awaitable(v) <=> default_is_awaitable(v))
    /\ ~Holds(v, "awaitable")

\* C11: is_awaitable answers false for every deferred value, although the
\* host's detector takes it for an awaitable, and answers as the host's
\* detector for every other value; so no field result is ever handed to the
\* native-awaitable branch: no value the executor produces holds a native
\* awaitable.
C11_DeferredValueIsNotAwaitable ==
    /\ \A id \in 1..Len(heap) :
          /\ is_thenable(PromV(id))
          /\ default_is_awaitable(PromV(id))
          /\ ~is_awaitable(PromV(id))
    /\ is_awaitable(AwaitableV) /\ ~is_awaitable(UndefinedV)
    /\ \A id \in 1..Len(heap) :
          heap[id].state = "fulfilled" => ClassifiedAsByDefault(heap[id].value)
    /\ pc = "done" => ClassifiedAsByDefault(response.data)

\* The deferred field a has settled, its continuation has run, and the
\* envelope carries its value.
C11_Witness ==
    /\ pc = "done"
    /\ Deferred(<<"a">>) /\ cfg[<<"a">>].outcome = "ok"
    /\ Logged("cont", <<"a">>)
    /\ response.data.t = "dict"
    /\ Lookup(response.data, <<"a">>) = IntV(LeafValue(<<"a">>))

AllKeys == RootFields \o PFields

\* Mapping d has no entry for a field the schema does not know, and lists
\* all the other keys of its selection set in declared order.
OmitsUndefined(d) ==
    /\ \A i \in 1..Len(d.es) :
          /\ d.es[i].val # UndefinedV
          /\ \A f \in FieldPaths :
                cfg[f].outcome = "undefined" => d.es[i].key # f[Len(f)]
    /\ \A i, j \in 1..Len(d.es) :
          i < j => IndexOf(AllKeys, d.es[i].key) < IndexOf(AllKeys, d.es[j].key)
    /\ \E s \in SelectionPaths : Len(d.es) = Len(PresentFields(s))

\* The same of d and of the mappings it holds, when d is a mapping.
MappingsOmitUndefined(d) ==
    d.t = "dict" =>
        /\ OmitsUndefined(d)
        /\ \A i \in 1..Len(d.es) :
              d.es[i].val.t = "dict" => OmitsUndefined(d.es[i].val)

\* Whether the result resolve_field returned for field f was a deferred value.
ResultThenable(f) ==
    /\ cfg[f].outcome # "undefined"
    /\ \/ Deferred(f)
       \/ IsObjectField(f) /\ cfg[f].outcome = "ok" /\ Logged("slow", f)

\* C13: a field whose resolution returns Undefined has no entry in any
\* mapping execute_fields produces, not even a null one; the keys that remain
\* are all the other keys of the selection set in their declared order; and
\* a selection set takes the slow path only when one of the results it kept
\* is a deferred value.
C13_UndefinedKeyIsOmitted ==
    /\ \A id \in 1..Len(heap) : MappingsOmitUndefined(heap[id].value)
    /\ pc = "done" => MappingsOmitUndefined(response.data)
    /\ \A s \in SelectionPaths :
          /\ Logged("slow", s) =>
                \E i \in 1..Len(Selection(s)) : ResultThenable(Append(s, Selection(s)[i]))
          /\ Logged("fast", s) =>
                \A i \in 1..Len(Selection(s)) : ~ResultThenable(Append(s, Selection(s)[i]))

\* The schema does not know the middle field p of { a p b }: the envelope
\* lists a and b, and the selection set was completed on the fast path.
C13_Witness ==
    /\ pc = "done"
    /\ cfg[<<"p">>].outcome = "undefined"
    /\ response.data.t = "dict"
    /\ KeysOf(response.data) = <<"a", "b">>
    /\ Logged("fast", <<>>)

\* C14: execute_operation returns a pending deferred value for every
\* operation, having run no resolver and recorded no error; the execution
\* body runs as the continuation of an already fulfilled deferred value, so
\* every resolver is invoked inside a continuation; and a fault the body
\* raises rejects the deferred value that execute_operation returned.
C14_BodyRunsInsideContinuation ==
    [][/\ pc = "start" =>
             /\ pc' = "executed"
             /\ is_thenable(data')
             /\ heap'[data'.id].state = "pending"
             /\ heap'[data'.id].origin = "execute_operation"
             /\ log' = log /\ errors' = errors
             /\ Len(jobs') = 1
             /\ jobs'[1].rx.kind = "promise_executor"
             /\ jobs'[1].state = "fulfilled"
             /\ jobs'[1].rx.target = data'.id
       /\ log = <<>> /\ log' # <<>> =>
             jobs # <<>> /\ Head(jobs).rx.kind = "promise_executor"
       /\ log' # log => jobs # <<>>
       /\ (pc = "waiting" /\ operation # "query"
              /\ jobs # <<>> /\ Head(jobs).rx.kind = "promise_executor") =>
             /\ heap'[data.id].state = "rejected"
             /\ heap'[data.id].reason = NotConfigured
             /\ pc' = pc
      ]_vars

\* The schema cannot execute the operation: the deferred value that
\* execute_operation returned is rejected, and the envelope reports it.
C14_Witness ==
    /\ operation = "mutation"
    /\ pc = "done"
    /\ heap[data.id].state = "rejected"
    /\ response = ExecutionResult(NullV, <<NotConfigured>>)

\* C15: when the deferred result rejects, on_rejected appends exactly the
\* rejection to the error list and the envelope's data is null; when it
\* fulfils, neither handler of build_response changes the error list and the
\* envelope's data is the fulfilment value; a result that is no deferred
\* value goes unchanged to the standard builder.
C15_BuildResponseSettlesTheResult ==
    [][/\ jobs # <<>> /\ Head(jobs).rx.kind = "on_rejected" =>
             IF Head(jobs).state = "rejected"
             THEN errors' = Append(errors, Head(jobs).reason)
             ELSE errors' = errors
       /\ jobs # <<>> /\ Head(jobs).rx.kind = "on_resolve" => errors' = errors
       /\ pc = "executed" => errors' = errors
       /\ pc = "waiting" /\ pc' # "waiting" =>
             /\ pc' = "done"
             /\ response'.errors = errors'
             /\ IF heap[data.id].state = "rejected"
                THEN /\ response'.data = NullV
                     /\ errors' # <<>>
                     /\ errors'[Len(errors')] = heap[data.id].reason
                ELSE /\ heap[data.id].state = "fulfilled"
                     /\ response'.data = heap[data.id].value
       /\ pc = "executed" /\ ~is_thenable(data) =>
             /\ pc' = "done"
             /\ response' = ExecutionResult(data, errors)
             /\ heap' = heap /\ jobs' = jobs
      ]_vars

\* The deferred result was rejected: the envelope has null data and the
\* rejection is the one error.
C15_Witness ==
    /\ pc = "done"
    /\ is_thenable(data)
    /\ heap[data.id].state = "rejected"
    /\ response = ExecutionResult(NullV, <<heap[data.id].reason>>)

\* The deferred values of resolvers that have not settled yet.
Unsettled(m) ==
    {id \in 1..Len(m.heap) :
        /\ m.heap[id].origin = "resolver"
        /\ m.heap[id].state = "pending"
        /\ ~m.heap[id].following}

\* The run in which the resolvers' deferred values settle in the order in
\* which they were created, up to the return of promise.get() on w.
RECURSIVE RunInCreationOrder(_, _)
RunInCreationOrder(m, w) ==
    IF m.heap[w].state # "pending" THEN m
    ELSE IF m.jobs # <<>>
    THEN RunInCreationOrder(RunOne([m EXCEPT !.jobs = Tail(@)], Head(m.jobs)), w)
    ELSE IF Unsettled(m) = {} THEN m
    ELSE RunInCreationOrder(
             settle_promise(m, CHOOSE id \in Unsettled(m) : \A o \in Unsettled(m) : id <= o),
             w)

\* The envelope of that run, for the operation and the resolvers of this one.
ReferenceResponse ==
    LET m0 == [heap |-> <<>>, jobs |-> <<>>, errors |-> <<>>, log |-> <<>>]
        executed == execute_operation(m0)
        built == build_response(executed.m, executed.ret)
        final == RunInCreationOrder(built.m, built.ret.id)
    IN final.heap[built.ret.id].value

Range(seq) == {seq[i] : i \in 1..Len(seq)}

\* C17: for one query and one outcome of every resolver, the envelope has
\* the same data and the same set of errors whatever the order in which the
\* deferred values settle: every run returns the envelope of the run that
\* settles them in creation order.
C17_EnvelopeIndependentOfSettlementOrder ==
    pc = "done" /\ operation = "query" =>
        /\ response.data = ReferenceResponse.data
        /\ Range(response.errors) = Range(ReferenceResponse.errors)

\* C18: once build_response has returned, no continuation of the operation
\* is scheduled or still registered on an unsettled deferred value, and the
\* error list stays what the envelope reports.
C18_QuiescentAfterBuildResponse ==
    pc = "done" =>
        /\ jobs = <<>>
        /\ \A id \in 1..Len(heap) :
              heap[id].state = "pending" => heap[id].reactions = <<>>
        /\ errors = response.errors

\* C19: when every deferred value a resolver returned settles, the blocking
\* wait of build_response ends and the envelope is returned; and every
\* deferred field result has its continuation run.
C19_OperationCompletes ==
    <>[](/\ pc = "done"
         /\ \A f \in FieldPaths :
               Deferred(f) /\ Logged("invoke", f) => Logged("cont", f))

\* The operation has completed after waiting for three deferred values.
C19_Witness ==
    /\ pc = "done"
    /\ Cardinality({f \in FieldPaths : Deferred(f) /\ Logged("cont", f)}) = 3
    /\ response.t = "result"

\* C12: after build_response has returned, the data of the envelope holds no
\* deferred value at any depth, inside the lists of list-valued fields
\* included.
C12_NoDeferredValueInData ==
    pc = "done" => ~Holds(response.data, "promise")

NoListField == \A f \in FieldPaths : cfg[f].outcome # "list"

\* C16: the success continuation of complete_value is only ever given a
\* value that is not deferred; no deferred value is fulfilled with a deferred
\* value, and complete_value creates no deferred value besides the one
\* `then` returns for the field; a field whose deferred value fulfils with
\* deferred values, one inside the other, completes to the value of the
\* innermost one, as if its deferred value had fulfilled with it directly.
C16_DeferredOfDeferredIsFlattened ==
    /\ \A i \in 1..Len(jobs) :
          jobs[i].rx.kind = "complete" /\ jobs[i].state = "fulfilled" =>
              ~is_thenable(jobs[i].value)
    /\ \A id \in 1..Len(heap) :
          /\ ~is_thenable(heap[id].value)
          /\ heap[id].origin = "complete_value" => heap[id].path \in FieldPaths
    /\ pc = "done" /\ NoListField =>
          /\ response.data = Expected(<<>>)
          /\ response.errors = <<>>

\* The deferred value of field a fulfilled with a deferred value that
\* fulfilled with another one, and the envelope carries the innermost value.
C16_Witness ==
    /\ pc = "done"
    /\ cfg[<<"a">>] = NestedConfig
    /\ Cardinality({id \in 1..Len(heap) :
           heap[id].origin = "resolver" /\ heap[id].path = <<"a">>}) = MaxNesting + 1
    /\ Logged("cont", <<"a">>)
    /\ Lookup(response.data, <<"a">>) = IntV(LeafValue(<<"a">>))

====
